---------------------------- MODULE Spec2Model ----------------------------
(***************************************************************************)
(* Model of the hackers-library utilities:                                 *)
(*   - the Archive Deduplicator in its two variants,                       *)
(*       extract_and_dedup   (books/util/unduplicate.py, and the identical *)
(*                            copy in books/util/book_sorter.py)           *)
(*       prepare_root_dir    (src/util/book_sorter.py)                     *)
(*   - the Topic Sorter in its two variants,                               *)
(*       organize_files        (books/util/book_sorter.py)                 *)
(*       organize_by_keywords  (src/util/book_sorter.py)                   *)
(*   - the keyword classifier extract_keywords / categorize_by_keywords.   *)
(*                                                                         *)
(* A file system directory is a function from file names to contents.  A   *)
(* content is a number c standing for the c bytes "A"..."A"; character     *)
(* strings are sequences of one-character strings.                         *)
(***************************************************************************)
EXTENDS Integers, Sequences, FiniteSets, TLC

VARIABLES
    variant,          \* "books" (books/util) or "util" (src/util)
    pc,               \* position of the deduplicator: "run", "done", "aborted"
    archive,          \* index of the archive being processed
    zip_files,        \* number of archives in the list
    store,            \* files directly in the output directory: name -> content
    seen_hashes,      \* dict (books) / set (util) of fingerprints
    temp,             \* output/__temp exists (books)
    total_extracted,
    total_duplicates,
    total_empty,
    enumerated,       \* history: number of members enumerated so far
    first,            \* history: fingerprint -> name of its first member
    empties,          \* history: number of zero-byte members enumerated
    clobbered,        \* history: some shutil.move landed on an existing name
    spc,              \* position of the sorter: "idle", "run", "done", "aborted"
    input_dir,        \* the sorter's input directory: name -> document
    files,            \* files of the current sorter run not yet visited
    visited,          \* files of the current sorter run already visited
    tree,             \* categorized tree: <<category, name>> -> content
    total_sorted,
    runs,             \* number of sorter runs started
    overwritten,      \* history: some shutil.copy2 landed on an existing name
    kpc,              \* position of the classifier harness: "input", "classified"
    text,             \* the text handed to the keyword classifier
    category          \* its result

dedupVars == <<variant, pc, archive, zip_files, store, seen_hashes, temp,
               total_extracted, total_duplicates, total_empty, enumerated,
               first, empties, clobbered>>
sortVars == <<spc, input_dir, files, visited, tree, total_sorted, runs,
              overwritten>>
kwVars == <<kpc, text, category>>
vars == <<dedupVars, sortVars, kwVars>>

-----------------------------------------------------------------------------
(* Bounds *)

MaxArchives == 2
MaxMembers == 3
MaxContent == 2

-----------------------------------------------------------------------------
(* File names and the file system *)

Name(stem, copies, ext) == [stem |-> stem, copies |-> copies, ext |-> ext]

\* final_path.with_stem(final_path.stem + "_copy")
\* ROOT_OUTPUT / f"{final_path.stem}_copy{final_path.suffix}"
with_copy(p) == [p EXCEPT !.copies = @ + 1]

EmptyDir == [n \in {} |-> 0]

\* open(targetpath, "wb") ... copyfileobj: creates or truncates and writes
write(dir, n, c) == [x \in (DOMAIN dir) \cup {n} |-> IF x = n THEN c ELSE dir[x]]

\* os.remove
remove(dir, n) == [x \in (DOMAIN dir) \ {n} |-> dir[x]]

\* Path.exists
exists(dir, n) == n \in DOMAIN dir

\* os.path.getsize: content c is c bytes long
getsize(c) == c

\* hashlib.md5 over the full bytes; the digests of "", "A", "AA", ...
MD5Table == <<"d41d8cd98f00b204e9800998ecf8427e",
              "7fc56270e7a70fa81a5935b72eacbe29",
              "3b98e2dffc6cb06a89dcb0d5c60a0206",
              "e1faffb3e614e6c2fba74296962386b7",
              "098890dde069e9abad63f19a0d9e1f32",
              "f6a6263167c92de8644ac998b3c4e4d1">>

compute_md5(c) == MD5Table[c + 1]

-----------------------------------------------------------------------------
(* Archive members *)

Contents == 0..MaxContent

MemberNames == {Name("report", 0, ".pdf"), Name("report", 1, ".pdf"),
                Name("notes", 0, ".pdf")}

\* nested: the member's path has directory components ("d/report.pdf").
\* fail: "none"    the member extracts and hashes,
\*       "extract" zip_ref.extract raises before the target is written,
\*       "crc"     zip_ref.extract raises after the bytes are written,
\*       "hash"    compute_md5 raises on the extracted file.
FileMembers == [kind : {"file"}, nested : BOOLEAN, name : MemberNames,
                content : Contents, fail : {"none", "extract", "crc", "hash"}]

DirMember == [kind |-> "dir", nested |-> FALSE, name |-> Name("d", 0, ""),
              content |-> 0, fail |-> "none"]

Members == FileMembers \cup {DirMember}

-----------------------------------------------------------------------------
(* Archive Deduplicator, books/util variant: extract_and_dedup *)

\* History of the enumeration "for zip_file ... for member in infolist()":
\* how many members were enumerated, which member was the first to carry
\* each fingerprint, and how many members were zero bytes long.
record(m) ==
    /\ enumerated' = enumerated + 1
    /\ IF m.kind = "file" /\ m.fail = "none"
       THEN /\ first' = IF compute_md5(m.content) \in DOMAIN first
                        THEN first
                        ELSE write(first, compute_md5(m.content), m.name)
            /\ empties' = IF m.content = 0 THEN empties + 1 ELSE empties
       ELSE UNCHANGED <<first, empties>>

\* while final_path.exists(): final_path = final_path.with_stem(stem + "_copy")
RECURSIVE final_path_books(_, _)
final_path_books(p, dir) ==
    IF exists(dir, p) THEN final_path_books(with_copy(p), dir) ELSE p

\* The membership test left out: every fingerprint counts as new
seen_never(h, hashes) == FALSE

\* file_hash in seen_hashes
seen(h, hashes) == h \in DOMAIN hashes

\* One iteration of "for member in zip_ref.infolist()".  The member is
\* extracted below output/__temp, never into the flat store.
extract_and_dedup_member(m) ==
    /\ variant = "books"
    /\ pc = "run"
    /\ enumerated < MaxMembers
    /\ record(m)
    /\ UNCHANGED <<variant, archive, zip_files, total_extracted,
                   total_duplicates, total_empty>>
    /\ IF m.kind = "dir"
       THEN UNCHANGED <<pc, store, seen_hashes, temp, clobbered>>
       ELSE IF m.fail # "none"
       THEN \* the exception leaves the loops and the function
            /\ pc' = "aborted"
            /\ temp' = TRUE
            /\ UNCHANGED <<store, seen_hashes, clobbered>>
       ELSE LET file_hash == compute_md5(m.content)
                final == final_path_books(m.name, store)
            IN /\ temp' = TRUE
               /\ pc' = pc
               /\ IF seen(file_hash, seen_hashes)
                  THEN UNCHANGED <<store, seen_hashes, clobbered>>
                  ELSE /\ clobbered' = (clobbered \/ exists(store, final))
                       /\ store' = write(store, final, m.content)
                       /\ seen_hashes' = write(seen_hashes, file_hash, final)

\* After the "with" block of one archive: remove __temp, go to the next
\* archive or finish.
extract_and_dedup_cleanup ==
    /\ variant = "books"
    /\ pc = "run"
    /\ temp' = FALSE
    /\ IF archive < zip_files
       THEN archive' = archive + 1 /\ pc' = pc
       ELSE archive' = archive /\ pc' = "done"
    /\ UNCHANGED <<variant, zip_files, store, seen_hashes, total_extracted,
                   total_duplicates, total_empty, enumerated, first, empties,
                   clobbered>>

-----------------------------------------------------------------------------
(* Archive Deduplicator, src/util variant: prepare_root_dir *)

\* if final_path.exists(): final_path = ROOT_OUTPUT / f"{stem}_copy{suffix}"
final_path_util(p, dir) == IF exists(dir, p) THEN with_copy(p) ELSE p

\* zip_ref.extract(member, ROOT_OUTPUT): a member without directory
\* components is written straight into the flat store under its own name.
extract_util(m, dir) == IF m.nested THEN dir ELSE write(dir, m.name, m.content)

\* os.remove(extracted_path) / the source side of shutil.move
unlink_util(m, dir) == IF m.nested THEN dir ELSE remove(dir, m.name)

prepare_root_dir_member(m) ==
    /\ variant = "util"
    /\ pc = "run"
    /\ enumerated < MaxMembers
    /\ record(m)
    /\ UNCHANGED <<variant, archive, zip_files, temp>>
    /\ IF m.kind = "dir"
       THEN UNCHANGED <<pc, store, seen_hashes, total_extracted,
                        total_duplicates, total_empty, clobbered>>
       ELSE IF m.fail = "extract"
       THEN /\ pc' = "aborted"
            /\ UNCHANGED <<store, seen_hashes, total_extracted,
                           total_duplicates, total_empty, clobbered>>
       ELSE IF m.fail \in {"crc", "hash"}
       THEN /\ pc' = "aborted"
            /\ store' = extract_util(m, store)
            /\ UNCHANGED <<seen_hashes, total_extracted, total_duplicates,
                           total_empty, clobbered>>
       ELSE LET extracted == extract_util(m, store)
                file_hash == compute_md5(m.content)
                final == final_path_util(m.name, extracted)
            IN /\ pc' = pc
               /\ IF getsize(m.content) = 0
                  THEN /\ store' = unlink_util(m, extracted)
                       /\ total_empty' = total_empty + 1
                       /\ UNCHANGED <<seen_hashes, total_extracted,
                                      total_duplicates, clobbered>>
                  ELSE IF seen(file_hash, seen_hashes)
                  THEN /\ store' = unlink_util(m, extracted)
                       /\ total_duplicates' = total_duplicates + 1
                       /\ UNCHANGED <<seen_hashes, total_extracted,
                                      total_empty, clobbered>>
                  ELSE /\ seen_hashes' = write(seen_hashes, file_hash, TRUE)
                       /\ clobbered' =
                            (clobbered \/ exists(unlink_util(m, extracted), final))
                       /\ store' = write(unlink_util(m, extracted), final, m.content)
                       /\ total_extracted' = total_extracted + 1
                       /\ UNCHANGED <<total_duplicates, total_empty>>

\* End of the "with" block of one archive: next archive or the summary.
prepare_root_dir_next ==
    /\ variant = "util"
    /\ pc = "run"
    /\ IF archive < zip_files
       THEN archive' = archive + 1 /\ pc' = pc
       ELSE archive' = archive /\ pc' = "done"
    /\ UNCHANGED <<variant, zip_files, store, seen_hashes, temp,
                   total_extracted, total_duplicates, total_empty, enumerated,
                   first, empties, clobbered>>

-----------------------------------------------------------------------------
(* Character strings: a string is a sequence of one-character strings *)

LowerCase == <<"a", "b", "c", "d", "e", "f", "g", "h", "i", "j", "k", "l", "m",
              "n", "o", "p", "q", "r", "s", "t", "u", "v", "w", "x", "y", "z">>
UpperCase == <<"A", "B", "C", "D", "E", "F", "G", "H", "I", "J", "K", "L", "M",
              "N", "O", "P", "Q", "R", "S", "T", "U", "V", "W", "X", "Y", "Z">>
Digits == {"0", "1", "2", "3", "4", "5", "6", "7", "8", "9"}
Whitespace == {" ", "\t", "\n", "\r"}

Range(s) == {s[i] : i \in DOMAIN s}

\* str.lower, character by character
lower_char(c) ==
    IF c \in Range(UpperCase)
    THEN LowerCase[CHOOSE i \in DOMAIN UpperCase : UpperCase[i] = c]
    ELSE c

lower(s) == [i \in DOMAIN s |-> lower_char(s[i])]

\* str.upper, used to build mixed-case inputs
upper_char(c) ==
    IF c \in Range(LowerCase)
    THEN UpperCase[CHOOSE i \in DOMAIN LowerCase : LowerCase[i] = c]
    ELSE c

upper(s) == [i \in DOMAIN s |-> upper_char(s[i])]

\* "sub in s"
contains(sub, s) ==
    \E i \in 1..(Len(s) - Len(sub) + 1) : SubSeq(s, i, i + Len(sub) - 1) = sub

\* str.strip
RECURSIVE lstrip(_)
lstrip(s) == IF s # << >> /\ Head(s) \in Whitespace THEN lstrip(Tail(s)) ELSE s

RECURSIVE rstrip(_)
rstrip(s) ==
    IF s # << >> /\ s[Len(s)] \in Whitespace
    THEN rstrip(SubSeq(s, 1, Len(s) - 1))
    ELSE s

strip(s) == rstrip(lstrip(s))

\* str.splitlines for the line boundary "\n": the lines without their
\* terminators; a trailing terminator opens no further line
RECURSIVE split_from(_, _, _)
split_from(s, i, line) ==
    IF i > Len(s)
    THEN IF line = << >> THEN << >> ELSE <<line>>
    ELSE IF s[i] = "\n"
    THEN <<line>> \o split_from(s, i + 1, << >>)
    ELSE split_from(s, i + 1, Append(line, s[i]))

splitlines(s) == split_from(s, 1, << >>)

\* re.findall(r"[a-zA-Z0-9\- ]+", line): the maximal runs of letters, digits,
\* hyphens and spaces, left to right
WordChars == Range(LowerCase) \cup Range(UpperCase) \cup Digits \cup {"-", " "}

RECURSIVE findall_from(_, _, _)
findall_from(s, i, run) ==
    IF i > Len(s)
    THEN IF run = << >> THEN << >> ELSE <<run>>
    ELSE IF s[i] \in WordChars
    THEN findall_from(s, i + 1, Append(run, s[i]))
    ELSE (IF run = << >> THEN << >> ELSE <<run>>) \o findall_from(s, i + 1, << >>)

findall_words(s) == findall_from(s, 1, << >>)

-----------------------------------------------------------------------------
(* Keyword classifier: extract_keywords, categorize_by_keywords *)

KEYWORD_TRIGGERS == <<
    <<"k", "e", "y", "w", "o", "r", "d", "s">>,
    <<"i", "n", "d", "e", "x", " ", "t", "e", "r", "m", "s">>,
    <<"t", "o", "p", "i", "c", "s">>,
    <<"s", "u", "b", "j", "e", "c", "t">>>>

CategoryNames == <<"Programming", "Penetration Testing", "Cryptography", "Digital Forensics", "Network Security", "Cyber Law",
                   "Uncategorized">>

\* CATEGORIES, in declaration order: the term list of each category
CATEGORIES == <<
    <<<<"p", "r", "o", "g", "r", "a", "m", "m", "i", "n", "g">>,
      <<"c", "o", "d", "e">>,
      <<"s", "o", "f", "t", "w", "a", "r", "e">>,
      <<"p", "y", "t", "h", "o", "n">>,
      <<"j", "a", "v", "a">>>>,
    <<<<"e", "x", "p", "l", "o", "i", "t">>,
      <<"p", "a", "y", "l", "o", "a", "d">>,
      <<"b", "u", "r", "p">>,
      <<"n", "m", "a", "p">>,
      <<"p", "e", "n", "t", "e", "s", "t">>>>,
    <<<<"r", "s", "a">>,
      <<"a", "e", "s">>,
      <<"e", "n", "c", "r", "y", "p", "t", "i", "o", "n">>,
      <<"c", "i", "p", "h", "e", "r">>>>,
    <<<<"f", "o", "r", "e", "n", "s", "i", "c", "s">>,
      <<"e", "v", "i", "d", "e", "n", "c", "e">>,
      <<"a", "n", "a", "l", "y", "s", "i", "s">>>>,
    <<<<"f", "i", "r", "e", "w", "a", "l", "l">>,
      <<"n", "e", "t", "w", "o", "r", "k">>,
      <<"t", "c", "p", "/", "i", "p">>,
      <<"s", "n", "o", "r", "t">>,
      <<"v", "p", "n">>>>,
    <<<<"c", "o", "m", "p", "l", "i", "a", "n", "c", "e">>,
      <<"r", "e", "g", "u", "l", "a", "t", "i", "o", "n">>,
      <<"l", "a", "w">>,
      <<"g", "d", "p", "r">>>>>>

is_trigger_line(line) ==
    \E t \in DOMAIN KEYWORD_TRIGGERS : contains(KEYWORD_TRIGGERS[t], line)

\* The keywords of a text: from every line that contains a trigger phrase,
\* the stripped words longer than 3 characters.  list(set(...)) has no
\* defined order, and the result of categorize_by_keywords does not depend
\* on it, so the keywords are a set.
extract_keywords(t) ==
    LET lines == splitlines(lower(t))
    IN  {strip(w) : w \in
            {word \in UNION {Range(findall_words(lines[l])) :
                               l \in {k \in DOMAIN lines : is_trigger_line(lines[k])}} :
                Len(strip(word)) > 3}}

category_matches(c, keywords) ==
    \E t \in DOMAIN CATEGORIES[c] :
        \E kw \in keywords : contains(CATEGORIES[c][t], lower(kw))

\* The first category, in declaration order, one of whose terms occurs in
\* a keyword; "Uncategorized" when there is none
categorize_by_keywords(keywords) ==
    LET hits == {c \in DOMAIN CATEGORIES : category_matches(c, keywords)}
    IN  IF hits = {}
        THEN "Uncategorized"
        ELSE CategoryNames[CHOOSE c \in hits : \A d \in hits : c <= d]

-----------------------------------------------------------------------------
(* Topic Sorter: documents and names *)

MaxFiles == 2
MaxRuns == 2
MaxLabels == 2

\* A file name of the sorter: the stem as its pieces between "_", and the
\* suffix; "a_1.pdf" is SName(<<"a", "1">>, ".pdf")
SName(stem, ext) == [stem |-> stem, ext |-> ext]

\* Texts an extractor can return
NoText == << >>
BlankText == <<" ", "\n">>
KeywordText == <<"K", "e", "y", "w", "o", "r", "d", "s", ":", " ", "p", "y", "t", "h", "o", "n">>
PlainText == <<"h", "e", "l", "l", "o">>

\* A document: the text its extractor returns, and whether the extractor
\* fails on it (fitz.open / epub.read_epub / open raise)
Documents ==
    [text : {NoText, BlankText, KeywordText, PlainText}, unreadable : {FALSE}]
    \cup {[text |-> PlainText, unreadable |-> TRUE]}

InputNames == {SName(<<"a">>, ".pdf"), SName(<<"a", "1">>, ".pdf"),
               SName(<<"b">>, ".txt"), SName(<<"c">>, ".bin")}

InputDirs ==
    UNION {[names -> Documents] :
             names \in {ns \in SUBSET InputNames : Cardinality(ns) <= MaxFiles}}

\* extract_text_from_pdf / _epub / _txt: the excerpt, or "" when the
\* extractor raises (except Exception: return "")
extract_text(doc) == IF doc.unreadable THEN NoText ELSE doc.text

\* The if/elif chain on file.suffix.lower(): text stays "" for any other suffix
text_of(name, doc) ==
    IF name.ext \in {".pdf", ".epub", ".txt"} THEN extract_text(doc) ELSE NoText

-----------------------------------------------------------------------------
(* Topic Sorter, books/util variant: organize_files *)

LABELS == <<"Cryptography", "Network Security", "Penetration Testing",
            "Digital Forensics", "Malware Analysis", "Cyber Law",
            "Cybersecurity Certifications", "General Cybersecurity">>

\* Score threshold of classify_text, in hundredths
Threshold == 40

\* What the zero-shot pipeline can answer: it raises, or it ranks a label
\* first with a score (in hundredths)
ClassifierAnswers ==
    [raises : {FALSE}, label : {LABELS[i] : i \in 1..MaxLabels},
     score : {Threshold, Threshold + 1}]
    \cup {[raises |-> TRUE, label |-> LABELS[1], score |-> 0]}

\* result["labels"][0] if result["scores"][0] > 0.4 else "Uncategorized"
classify_text(answer) ==
    IF answer.score > Threshold THEN answer.label ELSE "Uncategorized"

\* list(glob("*.pdf")) + list(glob("*.epub")) + list(glob("*.txt"))
glob_rank(name) ==
    CASE name.ext = ".pdf" -> 1
      [] name.ext = ".epub" -> 2
      [] name.ext = ".txt" -> 3
      [] OTHER -> 0

globbed_books(dir) == {n \in DOMAIN dir : glob_rank(n) > 0}

\* new_name = target_dir / file_path.name; counter = 1
\* while new_name.exists(): new_name = f"{stem}_{counter}{suffix}"; counter += 1
RECURSIVE new_name_from(_, _, _, _)
new_name_from(cat, name, counter, t) ==
    LET candidate == IF counter = 0
                     THEN name
                     ELSE SName(Append(name.stem, ToString(counter)), name.ext)
    IN  IF exists(t, <<cat, candidate>>)
        THEN new_name_from(cat, name, counter + 1, t)
        ELSE candidate

new_name(cat, name, t) == new_name_from(cat, name, 0, t)

\* One iteration of "for file_path in tqdm(files)"; within one glob the
\* order is the file system's
organize_files_file(f, answer) ==
    /\ variant = "books"
    /\ spc = "run"
    /\ f \in files
    /\ \A g \in files : glob_rank(f) <= glob_rank(g)
    /\ files' = files \ {f}
    /\ visited' = visited \cup {f}
    /\ UNCHANGED <<variant, input_dir, total_sorted, runs>>
    /\ IF strip(text_of(f, input_dir[f])) = << >>
       THEN UNCHANGED <<spc, tree, overwritten>>
       ELSE IF answer.raises
       THEN \* the exception leaves the loop and the function
            /\ spc' = "aborted"
            /\ UNCHANGED <<tree, overwritten>>
       ELSE LET cat == classify_text(answer)
                dst == new_name(cat, f, tree)
            IN /\ spc' = spc
               /\ overwritten' = (overwritten \/ exists(tree, <<cat, dst>>))
               /\ tree' = write(tree, <<cat, dst>>, f)

organize_files_start ==
    /\ variant = "books"
    /\ spc \in {"idle", "done"}
    /\ runs < MaxRuns
    /\ runs' = runs + 1
    /\ spc' = "run"
    /\ files' = globbed_books(input_dir)
    /\ visited' = {}
    /\ UNCHANGED <<variant, input_dir, tree, total_sorted, overwritten>>

organize_files_end ==
    /\ variant = "books"
    /\ spc = "run"
    /\ files = {}
    /\ spc' = "done"
    /\ UNCHANGED <<variant, input_dir, files, visited, tree, total_sorted,
                   runs, overwritten>>

-----------------------------------------------------------------------------
(* Topic Sorter, src/util variant: organize_by_keywords *)

\* One iteration of "for file in files"
organize_by_keywords_file(f) ==
    /\ variant = "util"
    /\ spc = "run"
    /\ f \in files
    /\ files' = files \ {f}
    /\ visited' = visited \cup {f}
    /\ LET keywords == extract_keywords(text_of(f, input_dir[f]))
           cat == categorize_by_keywords(keywords)
       IN /\ overwritten' = (overwritten \/ exists(tree, <<cat, f>>))
          /\ tree' = write(tree, <<cat, f>>, f)
    /\ total_sorted' = total_sorted + 1
    /\ UNCHANGED <<variant, spc, input_dir, runs>>

\* files = [f for f in ROOT_OUTPUT.glob("*") if f.is_file()]
organize_by_keywords_start ==
    /\ variant = "util"
    /\ spc \in {"idle", "done"}
    /\ runs < MaxRuns
    /\ runs' = runs + 1
    /\ spc' = "run"
    /\ files' = DOMAIN input_dir
    /\ visited' = {}
    /\ total_sorted' = 0
    /\ UNCHANGED <<variant, input_dir, tree, overwritten>>

organize_by_keywords_end ==
    /\ variant = "util"
    /\ spc = "run"
    /\ files = {}
    /\ spc' = "done"
    /\ UNCHANGED <<variant, input_dir, files, visited, tree, total_sorted,
                   runs, overwritten>>

-----------------------------------------------------------------------------
(* Classifier harness: one text, classified once *)

classify ==
    /\ kpc = "input"
    /\ category' = categorize_by_keywords(extract_keywords(text))
    /\ kpc' = "classified"
    /\ UNCHANGED text

-----------------------------------------------------------------------------
(* Specification of the deduplicator *)

SortIdle ==
    /\ spc = "idle"
    /\ input_dir = EmptyDir
    /\ files = {}
    /\ visited = {}
    /\ tree = EmptyDir
    /\ total_sorted = 0
    /\ runs = 0
    /\ overwritten = FALSE

KwIdle ==
    /\ kpc = "idle"
    /\ text = << >>
    /\ category = ""

Init ==
    /\ variant \in {"books", "util"}
    /\ pc = "run"
    /\ archive = 1
    /\ zip_files \in 1..MaxArchives
    /\ store = EmptyDir
    /\ seen_hashes = EmptyDir
    /\ temp = FALSE
    /\ total_extracted = 0
    /\ total_duplicates = 0
    /\ total_empty = 0
    /\ enumerated = 0
    /\ first = EmptyDir
    /\ empties = 0
    /\ clobbered = FALSE
    /\ SortIdle
    /\ KwIdle

Next ==
    \/ \E m \in Members : extract_and_dedup_member(m) /\ UNCHANGED <<sortVars, kwVars>>
    \/ extract_and_dedup_cleanup /\ UNCHANGED <<sortVars, kwVars>>
    \/ \E m \in Members : prepare_root_dir_member(m) /\ UNCHANGED <<sortVars, kwVars>>
    \/ prepare_root_dir_next /\ UNCHANGED <<sortVars, kwVars>>

Spec == Init /\ [][Next]_vars

-----------------------------------------------------------------------------
(* Specification of the sorter *)

DedupIdle ==
    /\ pc = "idle"
    /\ archive = 0
    /\ zip_files = 0
    /\ store = EmptyDir
    /\ seen_hashes = EmptyDir
    /\ temp = FALSE
    /\ total_extracted = 0
    /\ total_duplicates = 0
    /\ total_empty = 0
    /\ enumerated = 0
    /\ first = EmptyDir
    /\ empties = 0
    /\ clobbered = FALSE

InitSort ==
    /\ variant \in {"books", "util"}
    /\ DedupIdle
    /\ KwIdle
    /\ spc = "idle"
    /\ input_dir \in InputDirs
    /\ files = {}
    /\ visited = {}
    /\ tree = EmptyDir
    /\ total_sorted = 0
    /\ runs = 0
    /\ overwritten = FALSE

sortRest == <<pc, archive, zip_files, store, seen_hashes, temp,
              total_extracted, total_duplicates, total_empty, enumerated,
              first, empties, clobbered, kwVars>>

NextSort ==
    \/ organize_files_start /\ UNCHANGED sortRest
    \/ \E f \in InputNames, answer \in ClassifierAnswers :
          organize_files_file(f, answer) /\ UNCHANGED sortRest
    \/ organize_files_end /\ UNCHANGED sortRest
    \/ organize_by_keywords_start /\ UNCHANGED sortRest
    \/ \E f \in InputNames : organize_by_keywords_file(f) /\ UNCHANGED sortRest
    \/ organize_by_keywords_end /\ UNCHANGED sortRest

SpecSort == InitSort /\ [][NextSort]_vars

-----------------------------------------------------------------------------
(* Specification of the keyword classifier *)

AllTerms == UNION {Range(CATEGORIES[c]) : c \in DOMAIN CATEGORIES}

\* Texts: an optional first line, then a trigger line that names one term
Preambles == {<< >>, <<"p", "y", "t", "h", "o", "n", "\n">>, <<"T", "o", "p", "i", "c", "s", ":", " ", "g", "d", "p", "r", "\n">>}
Separators == {<<":", " ">>, <<" ">>}
Endings == {<< >>, <<",", " ", "m", "i", "s", "c">>}

KwTexts ==
    {p \o g \o s \o t \o e :
        p \in Preambles,
        g \in Range(KEYWORD_TRIGGERS),
        s \in Separators,
        t \in AllTerms \cup {upper(x) : x \in AllTerms},
        e \in Endings}

InitKw ==
    /\ variant = "util"
    /\ DedupIdle
    /\ SortIdle
    /\ kpc = "input"
    /\ text \in KwTexts
    /\ category = ""

NextKw == classify /\ UNCHANGED <<dedupVars, sortVars>>

SpecKw == InitKw /\ [][NextKw]_vars

-----------------------------------------------------------------------------
(* Properties of the deduplicator *)

\* The files of the flat store that hold the content with fingerprint h
FilesWith(h, dir) == {n \in DOMAIN dir : compute_md5(dir[n]) = h}

\* Contents of the archive members enumerated so far
Occurred == {c \in Contents : compute_md5(c) \in DOMAIN first}

\* C1: after a run into an output directory that was empty at the start,
\* no two files of the flat store have the same MD5 fingerprint.  Stated
\* for every point of a run that no exception has ended.
C1_UniqueFingerprints ==
    pc # "aborted" =>
        \A a, b \in DOMAIN store :
            compute_md5(store[a]) = compute_md5(store[b]) => a = b

\* A finished util run that met a duplicate and kept two different files
C1_Witness ==
    /\ pc = "done"
    /\ total_duplicates >= 1
    /\ Cardinality(DOMAIN store) = 2

\* C2: at the end of a run every distinct non-empty content that occurred
\* among the members is held by exactly one file of the store; two members
\* report.pdf with different contents leave report.pdf and report_copy.pdf
\* and a duplicate count of 0.
C2_EachUniqueFileOnce ==
    pc = "done" =>
        /\ \A c \in Occurred \ {0} :
              Cardinality(FilesWith(compute_md5(c), store)) = 1
        /\ (enumerated = 2 /\ Cardinality(Occurred \ {0}) = 2 /\ empties = 0
              /\ \A h \in DOMAIN first : first[h] = Name("report", 0, ".pdf"))
           => /\ DOMAIN store = {Name("report", 0, ".pdf"), Name("report", 1, ".pdf")}
              /\ total_duplicates = 0

\* C3: the name a new member is moved to is free at the moment of the move,
\* whatever the number of earlier files with the same base name.
C3_MoveLandsOnFreeName == ~clobbered

\* C4: a zero-byte member is never in the store, no fingerprint is computed
\* or recorded for it, and it is counted as empty, not as duplicate or
\* extracted.
C4_EmptyNeverStored ==
    /\ \A n \in DOMAIN store : getsize(store[n]) # 0
    /\ ~seen(compute_md5(0), seen_hashes)
    /\ variant = "util" => total_empty = empties

\* C5: a failure while extracting or hashing one member does not end the run,
\* and the scratch directory of the archive is removed.
C5_MemberFailureIsolated ==
    /\ pc # "aborted"
    /\ pc # "run" => ~temp

\* C10: first occurrence wins: the SeenSet only grows, the entry of a
\* fingerprint never changes, the stored file of a seen fingerprint is never
\* changed by a later member, and it carries the base name of the first
\* member with that fingerprint.
C10_FirstOccurrenceWins ==
    [][pc' = "run" => \A h \in DOMAIN seen_hashes :
          /\ h \in DOMAIN seen_hashes'
          /\ seen_hashes'[h] = seen_hashes[h]
          /\ FilesWith(h, store') = FilesWith(h, store)
          /\ \E n \in FilesWith(h, store') :
                /\ n.stem = first[h].stem
                /\ n.ext = first[h].ext
                /\ n.copies >= first[h].copies]_vars

-----------------------------------------------------------------------------
(* Properties of the sorter *)

Copied(f) == \E k \in DOMAIN tree : tree[k] = f

\* The extractor of f's suffix returned empty or whitespace-only text
Blank(f) ==
    /\ f.ext \in {".pdf", ".epub", ".txt"}
    /\ strip(extract_text(input_dir[f])) = << >>

\* C6: a file whose extracted text is empty or whitespace-only is skipped:
\* it is copied into no category folder, it stays in the input directory,
\* and it is not counted as sorted.
C6_BlankFileSkipped ==
    /\ \A f \in visited : Blank(f) => ~Copied(f) /\ f \in DOMAIN input_dir
    /\ total_sorted <= Cardinality({f \in visited : ~Blank(f)})

\* C7: a failure of the extractor or of the classifier on one file skips
\* that file (it is filed nowhere) and never ends the batch.
C7_FileFailureIsolated ==
    /\ spc # "aborted"
    /\ \A f \in visited : input_dir[f].unreadable => ~Copied(f)

\* C9: the destination of a copy is always a free name of the category
\* folder; no existing file of the categorized tree is overwritten.
C9_CopyLandsOnFreeName == ~overwritten

-----------------------------------------------------------------------------
(* Properties of the keyword classifier *)

TriggerLines(t) ==
    {line \in Range(splitlines(lower(t))) : is_trigger_line(line)}

\* The categories one of whose terms occurs in a trigger line of the text
Named(t) ==
    {c \in DOMAIN CATEGORIES :
        \E line \in TriggerLines(t) :
            \E term \in Range(CATEGORIES[c]) : contains(term, line)}

\* C8: when a trigger line contains a term of category C and no trigger
\* line matches a category declared before C, the classifier returns C, for
\* every term of every list.
C8_FirstNamedCategoryWins ==
    kpc = "classified" =>
        \A c \in Named(text) :
            (\A d \in Named(text) : c <= d) => category = CategoryNames[c]

=============================================================================
